---- MODULE Spec2Model ----
(***************************************************************************)
(* Model of src/main.cpp: HelloTriangleApplication, the bootstrap sequence *)
(* run() = initWindow; initVulkan (createInstance, setupDebugMessenger,    *)
(* createSurface, pickPhysicalDevice, createLogicalDevice,                 *)
(* createSwapChain); mainLoop; cleanup, wrapped by main()'s try/catch.     *)
(*                                                                         *)
(* The platform (driver and window system) is an environment: the list of  *)
(* physical devices with their queue families, and what the surface        *)
(* reports (formats, present modes, capabilities, framebuffer size).  Its  *)
(* answers are fixed when the surface comes into existence and are only    *)
(* read afterwards.                                                        *)
(*                                                                         *)
(* Indices are 0-based as in the C++ code; sequences are 1-based, so       *)
(* family i of a device is queueFamilies[i + 1].                           *)
(***************************************************************************)
EXTENDS Integers, Sequences, FiniteSets, TLC

(***************************************************************************)
(* Bounds of the model.                                                    *)
(***************************************************************************)
\* uint32_t is modelled with WordBits bits (TLC's integers are 32-bit signed,
\* so 2^32 - 1 itself is not representable); every list length and every
\* pixel size of the model stays far below 2^WordBits - 1.
WordBits == 16
MaxDevices == 2
MaxFamilies == 3
MaxFormats == 2
MaxModes == 2
MaxImageCount == 6
MaxPolls == 2

(***************************************************************************)
(* Program constants.                                                      *)
(***************************************************************************)
WIDTH == 800
HEIGHT == 600
EXIT_SUCCESS == 0
EXIT_FAILURE == 1

\* std::numeric_limits<uint32_t>::max(), also the value of ~0 once the
\* conditional operator converts it to uint32_t.
UINT32_MAX == 2 ^ WordBits - 1

\* static_cast<uint32_t>(x)
ToUint32(x) == x % (2 ^ WordBits)

\* VK_MAKE_API_VERSION(0, major, minor, 0)
VK_MAKE_API_VERSION(major, minor) == major * 4194304 + minor * 4096
VK_API_VERSION_1_2 == VK_MAKE_API_VERSION(1, 2)
VK_API_VERSION_1_3 == VK_MAKE_API_VERSION(1, 3)
VK_API_VERSION_1_4 == VK_MAKE_API_VERSION(1, 4)

\* The four names of requiredDeviceExtension.
requiredDeviceExtension ==
    << "VK_KHR_swapchain", "VK_KHR_spirv_1_4",
       "VK_KHR_synchronization2", "VK_KHR_create_renderpass2" >>

\* An optional value: None is nullptr / "not set", Some(x) holds x.
None == << >>
Some(x) == << x >>
Get(o) == o[1]

Range(s) == { s[i] : i \in 1..Len(s) }
SeqsUpTo(S, n) == UNION { [1..k -> S] : k \in 0..n }
NonEmptySeqsUpTo(S, n) == UNION { [1..k -> S] : k \in 1..n }

(***************************************************************************)
(* The platform: what the driver and the window system can report.         *)
(***************************************************************************)
\* One vk::QueueFamilyProperties entry, reduced to the graphics bit of its
\* queueFlags, together with what getSurfaceSupportKHR answers for it.
QueueFamily == [graphics : BOOLEAN, present : BOOLEAN]

ApiVersions == { VK_API_VERSION_1_2, VK_API_VERSION_1_3, VK_API_VERSION_1_4 }
\* The versions used while the device list varies: below and at the minimum.
PickApiVersions == { VK_API_VERSION_1_2, VK_API_VERSION_1_3 }

\* Extension lists a device may enumerate: one holding every required name
\* (behind an unrelated one), one where a required name differs by case only.
AllExtensions == << "VK_KHR_maintenance1" >> \o requiredDeviceExtension
CaseExtensions ==
    << "vk_khr_swapchain", "VK_KHR_spirv_1_4",
       "VK_KHR_synchronization2", "VK_KHR_create_renderpass2" >>
ExtensionLists == { AllExtensions, CaseExtensions }

\* Family lists used while the device list varies: no graphics family at
\* all, and a graphics family behind a non-graphics one.
PickFamilyLists ==
    { << [graphics |-> FALSE, present |-> TRUE] >>,
      << [graphics |-> FALSE, present |-> TRUE],
         [graphics |-> TRUE, present |-> TRUE] >> }

DeviceKinds ==
    [ apiVersion : PickApiVersions,
      queueFamilies : PickFamilyLists,
      extensions : ExtensionLists,
      dynamicRendering : BOOLEAN,
      extendedDynamicState : BOOLEAN ]

GoodDevice(version, families) ==
    [ apiVersion |-> version,
      queueFamilies |-> families,
      extensions |-> AllExtensions,
      dynamicRendering |-> TRUE,
      extendedDynamicState |-> TRUE ]

Formats == { "B8G8R8A8Srgb", "R8G8B8A8Srgb", "B8G8R8A8Unorm" }
ColorSpaces == { "SrgbNonlinear", "ExtendedSrgbLinear" }
SurfaceFormats == [format : Formats, colorSpace : ColorSpaces]
PresentModes == { "Fifo", "Mailbox", "Immediate" }

Extent(w, h) == [width |-> w, height |-> h]
\* The "undefined" current extent: (0xFFFFFFFF, 0xFFFFFFFF).
UndefinedExtent == Extent(UINT32_MAX, UINT32_MAX)
PixelSizes == { 10, 100, 900, 1000 }
ExtentLimits == { 100, 900 }

BaseCapabilities ==
    [ minImageCount |-> 2,
      maxImageCount |-> 0,
      currentExtent |-> Extent(WIDTH, HEIGHT),
      minImageExtent |-> Extent(1, 1),
      maxImageExtent |-> Extent(1000, 1000) ]

BasePlatform ==
    [ devices |->
          << GoodDevice(VK_API_VERSION_1_3,
                        << [graphics |-> TRUE, present |-> TRUE] >>) >>,
      availableFormats |->
          << [format |-> "B8G8R8A8Srgb", colorSpace |-> "SrgbNonlinear"] >>,
      availablePresentModes |-> << "Fifo" >>,
      surfaceCapabilities |-> BaseCapabilities,
      framebufferSize |-> Extent(WIDTH, HEIGHT) ]

\* Platforms vary one part at a time around BasePlatform: the device list;
\* the version and the queue families of a single device that passes the
\* extension and feature tests; the surface formats; the present modes; the
\* image counts; the extents.
DevicePlatforms ==
    { [BasePlatform EXCEPT !.devices = ds] :
        ds \in SeqsUpTo(DeviceKinds, MaxDevices) }

QueuePlatforms ==
    { [BasePlatform EXCEPT !.devices = << GoodDevice(v, fs) >>] :
        v \in ApiVersions, fs \in SeqsUpTo(QueueFamily, MaxFamilies) }

FormatPlatforms ==
    { [BasePlatform EXCEPT !.availableFormats = fs] :
        fs \in NonEmptySeqsUpTo(SurfaceFormats, MaxFormats) }

ModePlatforms ==
    { [BasePlatform EXCEPT !.availablePresentModes = ms] :
        ms \in SeqsUpTo(PresentModes, MaxModes) }

\* minImageCount >= 1, and maxImageCount is 0 (no limit) or >= minImageCount.
CountPlatforms ==
    { [BasePlatform EXCEPT !.surfaceCapabilities.minImageCount = lo,
                           !.surfaceCapabilities.maxImageCount = hi] :
        lo \in 1..MaxImageCount,
        hi \in 0..MaxImageCount }

ExtentPlatforms ==
    { [BasePlatform EXCEPT !.surfaceCapabilities.currentExtent = cur,
                           !.surfaceCapabilities.minImageExtent = lo,
                           !.surfaceCapabilities.maxImageExtent = hi,
                           !.framebufferSize = fb] :
        cur \in { UndefinedExtent } \cup
                { Extent(w, h) : w \in PixelSizes, h \in PixelSizes },
        lo \in { Extent(w, h) : w \in ExtentLimits, h \in ExtentLimits },
        hi \in { Extent(w, h) : w \in ExtentLimits, h \in ExtentLimits },
        fb \in { Extent(w, h) : w \in PixelSizes, h \in PixelSizes } }

ValidCapabilities(c) ==
    /\ c.minImageCount >= 1
    /\ c.maxImageCount = 0 \/ c.minImageCount <= c.maxImageCount
    /\ c.minImageExtent.width <= c.maxImageExtent.width
    /\ c.minImageExtent.height <= c.maxImageExtent.height

Platforms ==
    { p \in DevicePlatforms \cup QueuePlatforms \cup FormatPlatforms
            \cup ModePlatforms \cup CountPlatforms \cup ExtentPlatforms :
        ValidCapabilities(p.surfaceCapabilities) }

(***************************************************************************)
(* Pure helpers of the program.                                            *)
(***************************************************************************)
\* std::ranges::find_if over a sequence of predicate results: the 0-based
\* index of the first TRUE, or Len(flags) (the end iterator) when none is.
RECURSIVE FindFrom(_, _)
FindFrom(flags, i) ==
    IF i > Len(flags) THEN Len(flags)
    ELSE IF flags[i] THEN i - 1
    ELSE FindFrom(flags, i + 1)

find_if(flags) == FindFrom(flags, 1)

\* strcmp(a, b) == 0
StrEq(a, b) == a = b

\* IsSuitable without the feature test.
IsSuitable_NoFeatureTest(dev) ==
    /\ dev.apiVersion >= VK_API_VERSION_1_3
    /\ \E i \in 1..Len(dev.queueFamilies) : dev.queueFamilies[i].graphics
    /\ \A r \in 1..Len(requiredDeviceExtension) :
         \E a \in 1..Len(dev.extensions) :
             StrEq(dev.extensions[a], requiredDeviceExtension[r])

\* The lambda pickPhysicalDevice hands to find_if.
IsSuitable(dev) ==
    LET supportsVulkan1_3 == dev.apiVersion >= VK_API_VERSION_1_3
        queueFamilies == dev.queueFamilies
        supportsGraphics ==
            \E i \in 1..Len(queueFamilies) : queueFamilies[i].graphics
        availableDeviceExtensions == dev.extensions
        supportsAllRequiredExtensions ==
            \A r \in 1..Len(requiredDeviceExtension) :
                \E a \in 1..Len(availableDeviceExtensions) :
                    StrEq(availableDeviceExtensions[a], requiredDeviceExtension[r])
        supportsRequiredFeatures ==
            dev.dynamicRendering /\ dev.extendedDynamicState
    IN  /\ supportsVulkan1_3
        /\ supportsGraphics
        /\ supportsAllRequiredExtensions
        /\ supportsRequiredFeatures

\* physicalDevice.getSurfaceSupportKHR(i, *surface).  An index that names no
\* family is invalid usage of the API: either answer may come back.
SurfaceSupportResults(qfp, i) ==
    IF i < Len(qfp) THEN { qfp[i + 1].present } ELSE BOOLEAN

\* QueueFamilyIndices with the branches of the first conditional swapped.
QueueFamilyIndices_Swapped(qfp, firstSupport) ==
    LET graphicsIndex0 ==
            ToUint32(find_if([i \in 1..Len(qfp) |-> qfp[i].graphics]))
    IN  [graphicsIndex |-> graphicsIndex0,
         presentIndex |-> IF firstSupport THEN UINT32_MAX ELSE graphicsIndex0]

\* The queue family resolution of createLogicalDevice, up to the check that
\* throws; firstSupport is the answer of the first getSurfaceSupportKHR call.
QueueFamilyIndices(qfp, firstSupport) ==
    LET size == Len(qfp)
        graphicsIndex0 ==
            ToUint32(find_if([i \in 1..size |-> qfp[i].graphics]))
        \* firstSupport ? graphicsIndex : ~0, of type uint32_t
        presentIndex0 == IF firstSupport THEN graphicsIndex0 ELSE UINT32_MAX
        entered == presentIndex0 = size
        both == find_if([i \in 1..size |-> qfp[i].graphics /\ qfp[i].present])
        foundBoth == entered /\ both # size
        graphicsIndex1 == IF foundBoth THEN ToUint32(both) ELSE graphicsIndex0
        presentIndex1 == IF foundBoth THEN graphicsIndex1 ELSE presentIndex0
        anyPresent == find_if([i \in 1..size |-> qfp[i].present])
        foundPresent == entered /\ presentIndex1 = size /\ anyPresent # size
        presentIndex2 ==
            IF foundPresent THEN ToUint32(anyPresent) ELSE presentIndex1
    IN  [graphicsIndex |-> graphicsIndex1, presentIndex |-> presentIndex2]

\* The check before the device is created.
NoQueueFamily(qfp, idx) ==
    idx.graphicsIndex = Len(qfp) \/ idx.presentIndex = Len(qfp)

chooseSwapSurfaceFormat(availableFormats) ==
    LET formatIt ==
            find_if([i \in 1..Len(availableFormats) |->
                        /\ availableFormats[i].format = "B8G8R8A8Srgb"
                        /\ availableFormats[i].colorSpace = "SrgbNonlinear"])
    IN  IF formatIt # Len(availableFormats)
        THEN availableFormats[formatIt + 1].format
        ELSE availableFormats[1].format

\* chooseSwapPresentMode looking at the first mode only.
chooseSwapPresentMode_FirstOnly(availablePresentModes) ==
    IF Len(availablePresentModes) > 0 /\ availablePresentModes[1] = "Mailbox"
    THEN "Mailbox" ELSE "Fifo"

chooseSwapPresentMode(availablePresentModes) ==
    IF \E i \in 1..Len(availablePresentModes) :
            availablePresentModes[i] = "Mailbox"
    THEN "Mailbox" ELSE "Fifo"

\* std::clamp(v, lo, hi)
Clamp(v, lo, hi) == IF v < lo THEN lo ELSE IF hi < v THEN hi ELSE v

\* chooseSwapExtent clamping the height into the width's limits.
chooseSwapExtent_WidthLimits(capabilities, framebuffer) ==
    IF capabilities.currentExtent.width # UINT32_MAX
    THEN capabilities.currentExtent
    ELSE Extent(Clamp(ToUint32(framebuffer.width),
                      capabilities.minImageExtent.width,
                      capabilities.maxImageExtent.width),
                Clamp(ToUint32(framebuffer.height),
                      capabilities.minImageExtent.width,
                      capabilities.maxImageExtent.width))

chooseSwapExtent(capabilities, framebuffer) ==
    IF capabilities.currentExtent.width # UINT32_MAX
    THEN capabilities.currentExtent
    ELSE Extent(Clamp(ToUint32(framebuffer.width),
                      capabilities.minImageExtent.width,
                      capabilities.maxImageExtent.width),
                Clamp(ToUint32(framebuffer.height),
                      capabilities.minImageExtent.height,
                      capabilities.maxImageExtent.height))

Max(a, b) == IF a < b THEN b ELSE a

\* MinImageCount clamping to the maximum even when it is 0 (no limit).
MinImageCount_ClampToZero(capabilities) ==
    LET minImageCount == Max(3, capabilities.minImageCount)
    IN  IF minImageCount > capabilities.maxImageCount
        THEN capabilities.maxImageCount
        ELSE minImageCount

\* The minImageCount computation of createSwapChain.
MinImageCount(capabilities) ==
    LET minImageCount == Max(3, capabilities.minImageCount)
    IN  IF capabilities.maxImageCount > 0
           /\ minImageCount > capabilities.maxImageCount
        THEN capabilities.maxImageCount
        ELSE minImageCount

\* The vk::SwapchainCreateInfoKHR of createSwapChain (the negotiated fields).
SwapChainCreateInfo(capabilities, formats, modes, framebuffer) ==
    [ minImageCount |-> MinImageCount(capabilities),
      imageFormat |-> chooseSwapSurfaceFormat(formats),
      imageColorSpace |-> "SrgbNonlinear",
      imageExtent |-> chooseSwapExtent(capabilities, framebuffer),
      presentMode |-> chooseSwapPresentMode(modes) ]

(***************************************************************************)
(* State.                                                                  *)
(***************************************************************************)
VARIABLES
    pc,                    \* position of main(): the step about to run
    executed,              \* the steps entered so far, in order
    polls,                 \* glfwPollEvents calls made by mainLoop
    window,                \* GLFWwindow* is non-null
    instance,              \* vk::raii::Instance is constructed
    surface,               \* vk::raii::SurfaceKHR is constructed
    devices,               \* platform: instance.enumeratePhysicalDevices()
    availableFormats,      \* platform: getSurfaceFormatsKHR(surface)
    availablePresentModes, \* platform: getSurfacePresentModesKHR(surface)
    surfaceCapabilities,   \* platform: getSurfaceCapabilitiesKHR(surface)
    framebufferSize,       \* platform: glfwGetFramebufferSize(window)
    physicalDevice,        \* None, or Some(0-based index into devices)
    queueFamilyIndices,    \* None, or Some([graphicsIndex, presentIndex])
    device,                \* vk::raii::Device is constructed
    graphicsQueue,         \* None, or Some(family index the queue came from)
    presentQueue,          \* None, or Some(family index the queue came from)
    swapChain,             \* None, or Some(create info of the swapchain)
    swapChainImageFormat,
    swapChainExtent,
    exception,             \* None, or Some(what()) of the exception in flight
    cerr,                  \* lines main() wrote to std::cerr
    exitStatus             \* None while running, Some(status) once exited

platformVars ==
    << devices, availableFormats, availablePresentModes,
       surfaceCapabilities, framebufferSize >>
deviceVars ==
    << physicalDevice, queueFamilyIndices, device, graphicsQueue, presentQueue >>
swapVars == << swapChain, swapChainImageFormat, swapChainExtent >>
exitVars == << cerr, exitStatus >>

vars ==
    << pc, executed, polls, window, instance, surface, platformVars,
       deviceVars, swapVars, exception, exitVars >>

\* The bootstrap steps of initVulkan that can fail, in the order run() and
\* initVulkan() call them.
BootstrapSteps ==
    << "createInstance", "setupDebugMessenger", "createSurface",
       "pickPhysicalDevice", "createLogicalDevice", "createSwapChain" >>

Init ==
    /\ pc = "initWindow"
    /\ executed = << >>
    /\ polls = 0
    /\ window = FALSE
    /\ instance = FALSE
    /\ surface = FALSE
    /\ devices = << >>
    /\ availableFormats = << >>
    /\ availablePresentModes = << >>
    /\ surfaceCapabilities = BaseCapabilities
    /\ framebufferSize = Extent(0, 0)
    /\ physicalDevice = None
    /\ queueFamilyIndices = None
    /\ device = FALSE
    /\ graphicsQueue = None
    /\ presentQueue = None
    /\ swapChain = None
    /\ swapChainImageFormat = "Undefined"
    /\ swapChainExtent = Extent(0, 0)
    /\ exception = None
    /\ cerr = << >>
    /\ exitStatus = None

\* A step is entered.
Enter(step) == pc = step /\ executed' = Append(executed, step)

\* throw std::runtime_error(what), or an exception of the Vulkan bindings:
\* the stack unwinds to the handler of main().
Throw(what) == pc' = "catch" /\ exception' = Some(what)

\* The step returns to its caller, which goes on with the next one.
Return(next) == pc' = next /\ exception' = exception

(***************************************************************************)
(* The steps.                                                              *)
(***************************************************************************)
\* glfwCreateWindow may return a null window; nothing is checked.
initWindow ==
    /\ Enter("initWindow")
    /\ \E created \in BOOLEAN : window' = created
    /\ Return("createInstance")
    /\ UNCHANGED << polls, instance, surface, platformVars, deviceVars,
                    swapVars, exitVars >>

\* Throws when a required layer or extension is missing or the instance
\* cannot be constructed.
createInstance ==
    /\ Enter("createInstance")
    /\ \E outcome \in { "ok", "layer", "extension", "error" } :
         IF outcome = "ok"
         THEN instance' = TRUE /\ Return("setupDebugMessenger")
         ELSE /\ instance' = instance
              /\ Throw(CASE outcome = "layer" -> "Required layer not supported"
                         [] outcome = "extension" ->
                                "Required extension not supported"
                         [] OTHER -> "vk::SystemError")
    /\ UNCHANGED << polls, window, surface, platformVars, deviceVars,
                    swapVars, exitVars >>

\* Returns at once without validation layers; creating the messenger may
\* throw with them.
setupDebugMessenger ==
    /\ Enter("setupDebugMessenger")
    /\ \E ok \in BOOLEAN :
         IF ok THEN Return("createSurface") ELSE Throw("vk::SystemError")
    /\ UNCHANGED << polls, window, instance, surface, platformVars,
                    deviceVars, swapVars, exitVars >>

\* glfwCreateWindowSurface fails for a null window and may fail otherwise.
\* With the surface in place the platform's answers are fixed.
createSurface ==
    /\ Enter("createSurface")
    /\ \E ok \in { window, FALSE } :
         IF ok
         THEN /\ surface' = TRUE
              /\ \E p \in Platforms :
                   /\ devices' = p.devices
                   /\ availableFormats' = p.availableFormats
                   /\ availablePresentModes' = p.availablePresentModes
                   /\ surfaceCapabilities' = p.surfaceCapabilities
                   /\ framebufferSize' = p.framebufferSize
              /\ Return("pickPhysicalDevice")
         ELSE /\ UNCHANGED << surface, platformVars >>
              /\ Throw("failed to create window surface!")
    /\ UNCHANGED << polls, window, instance, deviceVars, swapVars, exitVars >>

\* pickPhysicalDevice falling back to the first device when none is suitable.
pickPhysicalDevice_Fallback ==
    /\ Enter("pickPhysicalDevice")
    /\ LET devIter ==
               find_if([i \in 1..Len(devices) |-> IsSuitable(devices[i])])
       IN  IF devIter # Len(devices)
           THEN physicalDevice' = Some(devIter) /\ Return("createLogicalDevice")
           ELSE IF Len(devices) > 0
           THEN physicalDevice' = Some(0) /\ Return("createLogicalDevice")
           ELSE /\ physicalDevice' = physicalDevice
                /\ Throw("failed to find a suitable GPU!")
    /\ UNCHANGED << polls, window, instance, surface, platformVars,
                    queueFamilyIndices, device, graphicsQueue, presentQueue,
                    swapVars, exitVars >>

pickPhysicalDevice ==
    /\ Enter("pickPhysicalDevice")
    /\ LET devIter ==
               find_if([i \in 1..Len(devices) |-> IsSuitable(devices[i])])
       IN  IF devIter # Len(devices)
           THEN physicalDevice' = Some(devIter) /\ Return("createLogicalDevice")
           ELSE /\ physicalDevice' = physicalDevice
                /\ Throw("failed to find a suitable GPU!")
    /\ UNCHANGED << polls, window, instance, surface, platformVars,
                    queueFamilyIndices, device, graphicsQueue, presentQueue,
                    swapVars, exitVars >>

\* What constructing the device and fetching the two queues can do once the
\* indices passed the check: the device is created and both queues fetched;
\* vkCreateDevice fails; or, for a present index that names no family,
\* fetching the present queue is invalid usage and may bring the process down.
DeviceOutcomes(qfp, idx) ==
    { "created", "error" } \cup
    (IF idx.presentIndex >= Len(qfp) THEN { "crash" } ELSE { })

createLogicalDevice ==
    /\ Enter("createLogicalDevice")
    /\ LET queueFamilyProperties ==
               devices[Get(physicalDevice) + 1].queueFamilies
           first ==
               find_if([i \in 1..Len(queueFamilyProperties) |->
                           queueFamilyProperties[i].graphics])
       IN  \E firstSupport \in SurfaceSupportResults(queueFamilyProperties, first) :
             LET idx == QueueFamilyIndices(queueFamilyProperties, firstSupport)
             IN  /\ queueFamilyIndices' = Some(idx)
                 /\ IF NoQueueFamily(queueFamilyProperties, idx)
                    THEN /\ Throw("could not find a queue for graphics or present -> Terminating")
                         /\ UNCHANGED << device, graphicsQueue, presentQueue,
                                         exitStatus >>
                    ELSE \E outcome \in DeviceOutcomes(queueFamilyProperties, idx) :
                           CASE outcome = "created" ->
                                  /\ device' = TRUE
                                  /\ graphicsQueue' = Some(idx.graphicsIndex)
                                  /\ presentQueue' = Some(idx.presentIndex)
                                  /\ Return("createSwapChain")
                                  /\ exitStatus' = exitStatus
                             [] outcome = "error" ->
                                  /\ Throw("vk::SystemError")
                                  /\ UNCHANGED << device, graphicsQueue,
                                                  presentQueue, exitStatus >>
                             [] outcome = "crash" ->
                                  \* killed by a signal: no handler runs
                                  /\ device' = TRUE
                                  /\ graphicsQueue' = Some(idx.graphicsIndex)
                                  /\ presentQueue' = presentQueue
                                  /\ pc' = "exit"
                                  /\ exception' = exception
                                  /\ exitStatus' = Some(139)
    /\ UNCHANGED << polls, window, instance, surface, platformVars,
                    physicalDevice, swapVars, cerr >>

createSwapChain ==
    /\ Enter("createSwapChain")
    /\ LET createInfo ==
               SwapChainCreateInfo(surfaceCapabilities, availableFormats,
                                   availablePresentModes, framebufferSize)
       IN  /\ swapChainImageFormat' = createInfo.imageFormat
           /\ swapChainExtent' = createInfo.imageExtent
           /\ \E ok \in BOOLEAN :
                IF ok
                THEN swapChain' = Some(createInfo) /\ Return("mainLoop")
                ELSE swapChain' = swapChain /\ Throw("vk::SystemError")
    /\ UNCHANGED << polls, window, instance, surface, platformVars,
                    deviceVars, exitVars >>

\* One test of the loop condition: leave the loop, or poll once more.
mainLoop ==
    /\ pc = "mainLoop"
    /\ \E shouldClose \in BOOLEAN :
         IF shouldClose
         THEN /\ executed' = Append(executed, "mainLoop")
              /\ pc' = "cleanup"
              /\ polls' = polls
         ELSE /\ polls < MaxPolls
              /\ polls' = polls + 1
              /\ UNCHANGED << pc, executed >>
    /\ UNCHANGED << window, instance, surface, platformVars, deviceVars,
                    swapVars, exception, exitVars >>

cleanup ==
    /\ Enter("cleanup")
    /\ window' = FALSE
    /\ Return("return")
    /\ UNCHANGED << polls, instance, surface, platformVars, deviceVars,
                    swapVars, exitVars >>

\* main(): run() returned, return EXIT_SUCCESS.
MainReturn ==
    /\ pc = "return"
    /\ pc' = "exit"
    /\ exitStatus' = Some(EXIT_SUCCESS)
    /\ UNCHANGED << executed, polls, window, instance, surface, platformVars,
                    deviceVars, swapVars, exception, cerr >>

\* The handler of main() returning EXIT_SUCCESS.
MainCatch_ReturnsSuccess ==
    /\ pc = "catch"
    /\ pc' = "exit"
    /\ cerr' = Append(cerr, Get(exception))
    /\ exitStatus' = Some(EXIT_SUCCESS)
    /\ UNCHANGED << executed, polls, window, instance, surface, platformVars,
                    deviceVars, swapVars, exception >>

\* main(): catch (const std::exception& e): report it, return EXIT_FAILURE.
MainCatch ==
    /\ pc = "catch"
    /\ pc' = "exit"
    /\ cerr' = Append(cerr, Get(exception))
    /\ exitStatus' = Some(EXIT_FAILURE)
    /\ UNCHANGED << executed, polls, window, instance, surface, platformVars,
                    deviceVars, swapVars, exception >>

Next ==
    \/ initWindow
    \/ createInstance
    \/ setupDebugMessenger
    \/ createSurface
    \/ pickPhysicalDevice
    \/ createLogicalDevice
    \/ createSwapChain
    \/ mainLoop
    \/ cleanup
    \/ MainReturn
    \/ MainCatch

Spec == Init /\ [][Next]_vars

(***************************************************************************)
(* Properties.                                                             *)
(***************************************************************************)
\* The step has been entered.
Ran(step) == \E i \in 1..Len(executed) : executed[i] = step

\* The four conditions of the device selection, as the specification
\* states them.
MeetsAllFour(dev) ==
    /\ dev.apiVersion >= VK_MAKE_API_VERSION(1, 3)
    /\ \E f \in Range(dev.queueFamilies) : f.graphics
    /\ Range(requiredDeviceExtension) \subseteq Range(dev.extensions)
    /\ dev.dynamicRendering
    /\ dev.extendedDynamicState

Qualifying == { i \in 1..Len(devices) : MeetsAllFour(devices[i]) }

\* C1: once pickPhysicalDevice has run on a device list with a device meeting
\* all four conditions, the selected device is the qualifying one with the
\* smallest enumeration index: it qualifies, no device before it does, and
\* the step did not fail.
C1_FirstQualifyingDeviceSelected ==
    (Ran("pickPhysicalDevice") /\ Qualifying # { }) =>
        /\ physicalDevice # None
        /\ Get(physicalDevice) + 1 \in Qualifying
        /\ \A j \in Qualifying : Get(physicalDevice) + 1 <= j
        /\ exception # Some("failed to find a suitable GPU!")

\* A device that does not qualify was skipped for the one after it.
C1_Witness ==
    /\ Ran("pickPhysicalDevice")
    /\ Len(devices) = 2
    /\ Qualifying = { 2 }
    /\ physicalDevice = Some(1)

\* C7: once pickPhysicalDevice has run on a device list without a qualifying
\* device (the empty list included), it has thrown "failed to find a suitable
\* GPU!", no physical device is selected and no later step was entered.
C7_NoSuitableDeviceFails ==
    (Ran("pickPhysicalDevice") /\ Qualifying = { }) =>
        /\ physicalDevice = None
        /\ exception = Some("failed to find a suitable GPU!")
        /\ pc \in { "catch", "exit" }
        /\ ~Ran("createLogicalDevice")

\* Two devices, neither qualifying, and the step has thrown.
C7_Witness ==
    /\ Ran("pickPhysicalDevice")
    /\ Len(devices) = 2
    /\ Qualifying = { }
    /\ exception = Some("failed to find a suitable GPU!")

\* The queue families of the selected device, and the families among them
\* (0-based) that support graphics, presentation, and both.
ChosenFamilies == devices[Get(physicalDevice) + 1].queueFamilies
GraphicsFamilies ==
    { i \in 0..(Len(ChosenFamilies) - 1) : ChosenFamilies[i + 1].graphics }
PresentFamilies ==
    { i \in 0..(Len(ChosenFamilies) - 1) : ChosenFamilies[i + 1].present }
CombinedFamilies == GraphicsFamilies \cap PresentFamilies
Least(S) == CHOOSE m \in S : \A n \in S : m <= n

NoQueueFamilyError ==
    Some("could not find a queue for graphics or present -> Terminating")

\* C2: whenever the logical device has been constructed, the graphics family
\* index and the present family index the queues are fetched with are both
\* smaller than the number of queue families of the selected device.
C2_IndicesValidAtDeviceCreation ==
    device =>
        /\ Get(queueFamilyIndices).graphicsIndex < Len(ChosenFamilies)
        /\ Get(queueFamilyIndices).presentIndex < Len(ChosenFamilies)

\* C3: once createLogicalDevice has run on families whose first graphics
\* family cannot present while some family supports both, the graphics index
\* and the present index are both the first family supporting both.
C3_CombinedFamilyFallback ==
    ( /\ Ran("createLogicalDevice")
      /\ GraphicsFamilies # { }
      /\ Least(GraphicsFamilies) \notin PresentFamilies
      /\ CombinedFamilies # { } ) =>
        queueFamilyIndices =
            Some([graphicsIndex |-> Least(CombinedFamilies),
                  presentIndex |-> Least(CombinedFamilies)])

\* C4: once createLogicalDevice has run on families none of which supports
\* both graphics and presentation, while some family supports graphics and
\* some other one presentation, the graphics index is the first graphics
\* family and the present index the first presenting family.
C4_SeparateFamilies ==
    ( /\ Ran("createLogicalDevice")
      /\ CombinedFamilies = { }
      /\ GraphicsFamilies # { }
      /\ PresentFamilies # { } ) =>
        queueFamilyIndices =
            Some([graphicsIndex |-> Least(GraphicsFamilies),
                  presentIndex |-> Least(PresentFamilies)])

\* C5: once createLogicalDevice has run on families none of which supports
\* graphics, or none of which supports presentation, it has thrown the
\* "could not find a queue" error, and neither the logical device nor a
\* queue exists.
C5_NoQueueFamilyFails ==
    ( /\ Ran("createLogicalDevice")
      /\ (GraphicsFamilies = { } \/ PresentFamilies = { }) ) =>
        /\ exception = NoQueueFamilyError
        /\ ~device
        /\ graphicsQueue = None
        /\ presentQueue = None

\* The preferred surface format.
PreferredFormat == [format |-> "B8G8R8A8Srgb", colorSpace |-> "SrgbNonlinear"]

\* C6: the format and color space the swapchain is created with are the
\* preferred pair when the candidate list holds it at any position, and
\* otherwise the format and the color space of the first candidate.
C6_SurfaceFormatNegotiated ==
    swapChain # None =>
        LET negotiated ==
                [format |-> Get(swapChain).imageFormat,
                 colorSpace |-> Get(swapChain).imageColorSpace]
        IN  IF PreferredFormat \in Range(availableFormats)
            THEN negotiated = PreferredFormat
            ELSE negotiated = availableFormats[1]

\* The order in which run() enters its steps.
StepOrder ==
    << "initWindow" >> \o BootstrapSteps \o << "mainLoop", "cleanup" >>

IsPrefix(s, t) == Len(s) <= Len(t) /\ \A i \in 1..Len(s) : s[i] = t[i]

\* What holds in every state: steps are entered in the fixed order; a thrown
\* failure leaves the process in the handler of main() or exited with
\* EXIT_FAILURE after writing the failure to std::cerr, with the failed step
\* the last one entered; the handler can always run; status 0 is reached
\* only without a failure and with every step entered.
C8_State ==
    /\ IsPrefix(executed, StepOrder)
    /\ exception # None =>
         /\ pc \in { "catch", "exit" }
         /\ executed[Len(executed)] \in Range(BootstrapSteps)
         /\ pc = "catch" => (exitStatus = None /\ ENABLED MainCatch)
         /\ pc = "exit" =>
              (exitStatus = Some(EXIT_FAILURE) /\ cerr = << Get(exception) >>)
    /\ exitStatus = Some(EXIT_SUCCESS) =>
         (exception = None /\ executed = StepOrder)

\* What holds of every step: after a failure no step is entered (none is
\* retried either) and the event loop does not iterate; the only step left
\* is the handler, which reports and exits with EXIT_FAILURE.
C8_Step ==
    exception # None =>
        /\ executed' = executed
        /\ polls' = polls
        /\ exception' = exception
        /\ pc' = "exit"
        /\ exitStatus' = Some(EXIT_FAILURE)
        /\ cerr' = Append(cerr, Get(exception))

\* C8: a failure (an exception thrown by a bootstrap step) is immediately
\* fatal: no later step and no event-loop iteration runs, nothing is
\* retried, the failure is reported and the process exits with a non-zero
\* status; it exits with status 0 only if every step ran in the fixed order.
C8_FailureIsFatal == [](C8_State) /\ [][C8_Step]_vars

\* The swapchain creation, the last bootstrap step, failed and the process
\* has exited with EXIT_FAILURE.
C8_Witness ==
    /\ exception # None
    /\ Ran("createSwapChain")
    /\ pc = "exit"
    /\ exitStatus = Some(EXIT_FAILURE)

\* max(3, min) as the specification states it: the baseline of 3 raised to
\* the surface's minimum.
Baseline(lo) == IF lo > 3 THEN lo ELSE 3

\* C9: for capabilities with max = 0 or min <= max, the swapchain's
\* minImageCount is max(3, min) when max = 0 or max(3, min) <= max, and max
\* otherwise; so it is >= min and, for a nonzero max, <= max.
C9_ImageCountNegotiated ==
    swapChain # None =>
        LET lo == surfaceCapabilities.minImageCount
            hi == surfaceCapabilities.maxImageCount
            count == Get(swapChain).minImageCount
        IN  /\ (hi = 0 \/ Baseline(lo) <= hi) => count = Baseline(lo)
            /\ ~(hi = 0 \/ Baseline(lo) <= hi) => count = hi
            /\ count >= lo
            /\ hi # 0 => count <= hi
            /\ (lo = 2 /\ hi = 0) => count = 3
            /\ (lo = 2 /\ hi = 3) => count = 3
            /\ (lo = 5 /\ hi = 6) => count = 5

\* The baseline exceeds a nonzero maximum and is clamped down to it.
C9_Witness ==
    /\ swapChain # None
    /\ surfaceCapabilities.maxImageCount = 2
    /\ surfaceCapabilities.minImageCount = 1
    /\ Get(swapChain).minImageCount = 2

\* v is x clamped into [lo, hi].
ClampedInto(v, x, lo, hi) ==
    /\ lo <= v /\ v <= hi
    /\ (lo <= x /\ x <= hi) => v = x
    /\ x < lo => v = lo
    /\ x > hi => v = hi

\* C10: once createSwapChain has run, the extent is the surface's current
\* extent verbatim when that is definite, and otherwise the framebuffer
\* width clamped into the width limits and the framebuffer height clamped
\* into the height limits.
C10_ExtentNegotiated ==
    Ran("createSwapChain") =>
        LET c == surfaceCapabilities
        IN  IF c.currentExtent # UndefinedExtent
            THEN swapChainExtent = c.currentExtent
            ELSE /\ ClampedInto(swapChainExtent.width, framebufferSize.width,
                                c.minImageExtent.width, c.maxImageExtent.width)
                 /\ ClampedInto(swapChainExtent.height, framebufferSize.height,
                                c.minImageExtent.height, c.maxImageExtent.height)

\* Undefined current extent, window 1000x10, limits 100x100 to 900x900:
\* the extent is 900x100.
C10_Witness ==
    /\ Ran("createSwapChain")
    /\ surfaceCapabilities.currentExtent = UndefinedExtent
    /\ framebufferSize = Extent(1000, 10)
    /\ surfaceCapabilities.minImageExtent = Extent(100, 100)
    /\ surfaceCapabilities.maxImageExtent = Extent(900, 900)
    /\ swapChainExtent = Extent(900, 100)

\* C11: once createLogicalDevice has run on families whose first graphics
\* family G also supports presentation, the graphics index and the present
\* index are both G, whatever the later families support, and the queue
\* family error was not thrown.
C11_FirstGraphicsFamilyPresents ==
    ( /\ Ran("createLogicalDevice")
      /\ GraphicsFamilies # { }
      /\ Least(GraphicsFamilies) \in PresentFamilies ) =>
        /\ queueFamilyIndices =
               Some([graphicsIndex |-> Least(GraphicsFamilies),
                     presentIndex |-> Least(GraphicsFamilies)])
        /\ exception # NoQueueFamilyError
        /\ (Len(ChosenFamilies) > 0 /\ ChosenFamilies[1] = [graphics |-> TRUE, present |-> TRUE])
               => queueFamilyIndices = Some([graphicsIndex |-> 0, presentIndex |-> 0])

\* G is the second family, a later family supports both as well, and both
\* queues were fetched from G.
C11_Witness ==
    /\ device
    /\ Len(ChosenFamilies) = 3
    /\ Least(GraphicsFamilies) = 1
    /\ CombinedFamilies = { 1, 2 }
    /\ graphicsQueue = Some(1)
    /\ presentQueue = Some(1)

\* C12: the present mode the swapchain is created with is mailbox when the
\* list of available modes holds mailbox at any position, and FIFO
\* otherwise; it is never another mode.
C12_PresentModeNegotiated ==
    swapChain # None =>
        /\ "Mailbox" \in Range(availablePresentModes)
               => Get(swapChain).presentMode = "Mailbox"
        /\ "Mailbox" \notin Range(availablePresentModes)
               => Get(swapChain).presentMode = "Fifo"
        /\ Get(swapChain).presentMode \in { "Mailbox", "Fifo" }

\* Mailbox behind FIFO in the list is chosen.
C12_Witness ==
    /\ swapChain # None
    /\ availablePresentModes = << "Fifo", "Mailbox" >>
    /\ Get(swapChain).presentMode = "Mailbox"

====
